---- MODULE Spec2Model ----
(***************************************************************************)
(* Model of the "spo page clientsidewebpart add" command                   *)
(* (SpoPageClientSideWebPartAddCommand.commandAction): the chain of        *)
(* requests get page -> checkoutpage -> getclientsidewebparts -> savepage  *)
(* and the in-memory edit of the canvas content done before savepage.      *)
(*                                                                         *)
(* An optional JavaScript value (a property that may be absent, a variable *)
(* that may be undefined) is a sequence of length 0 or 1.                  *)
(* Array indices are 0-based as in the source; -1 is "not found".          *)
(***************************************************************************)
EXTENDS Integers, Sequences, FiniteSets, TLC

\* ------------------------------------------------------------------ bounds
\* Largest number of positioned controls in a canvas handed to the edit
\* (specification SpecEdit).
MaxLen == 2
\* Largest number of positioned controls in a canvas fetched by the whole
\* command (specification Spec); the chain of requests multiplies the states.
MaxFetched == 1

\* Values of zoneIndex / sectionIndex drawn for fetched controls.
FetchedColumns == {<<1, 1>>, <<1, 2>>, <<2, 1>>}
\* Values of controlIndex drawn for fetched controls (gaps, duplicates and
\* descending runs are all possible).
FetchedControlIndices == {1, 2, 3}
\* Values of the section and order options; 0 is "not specified" (the
\* source reads them through || and ! only, which treat 0 and undefined
\* alike).
SectionOptions == {0, 1, 2}
OrderOptions   == {-1, 0, 1, 2}

\* ------------------------------------------------------- controls, canvas
None == <<>>
Some(v) == <<v>>

\* Values of the column option: left out, or a number.  A column of 0 is
\* looked up as column 1, like a column left out, but the message of the
\* rejection shows the option as given.
ColumnOptions == {None, Some(0), Some(1), Some(2)}

\* JSON.parse of the fallback literal: the page settings slice.
PageSettings ==
  [controlType |-> Some(0), position |-> None, displayMode |-> None,
   id |-> "pageSettingsSlice"]

\* The default section literal.
defaultSection ==
  [controlType |-> None,
   position |-> Some([controlIndex |-> 1, sectionIndex |-> 1, zoneIndex |-> 1,
                      sectionFactor |-> 12, layoutIndex |-> 1]),
   displayMode |-> Some(2),
   id |-> "defaultSection"]

\* A control of a fetched canvas that carries a position.
FetchedControl(col, ci, ct) ==
  [controlType |-> ct,
   position |-> Some([controlIndex |-> ci, sectionIndex |-> col[2],
                      zoneIndex |-> col[1],
                      sectionFactor |-> IF col[1] = 1 THEN 6 ELSE 12,
                      layoutIndex |-> 1]),
   displayMode |-> Some(2),
   id |-> IF ct = None THEN "emptyColumn" ELSE "existing"]

PositionedControls ==
  {FetchedControl(col, ci, ct) :
     col \in FetchedColumns, ci \in FetchedControlIndices,
     ct \in {None, Some(3)}}

Bodies(n) == UNION {[1..k -> PositionedControls] : k \in 0..n}

\* The canvases the server may return: up to n positioned controls,
\* optionally followed by the page settings slice.
FetchedLayouts(n) ==
  {b \o m : b \in Bodies(n), m \in {<<>>, <<PageSettings>>}}

\* The CanvasContent1 property of the response: absent/empty, or a canvas.
Responses(n) == {None} \cup {Some(l) : l \in FetchedLayouts(n)}

\* JSON.parse(res.CanvasContent1 || "[{\"controlType\":0,...}]")
ParseCanvas(res) == IF res = None THEN <<PageSettings>> ELSE res[1]

\* ------------------------------------------------------- array primitives
\* Array.prototype.findIndex, given the set of the (1-based) positions whose
\* element satisfies the callback: the first of them, 0-based, or -1.
FindIndex(hits) ==
  IF hits = {} THEN -1
  ELSE (CHOOSE i \in hits : \A j \in hits : i <= j) - 1

\* Array.prototype.splice(start, deleteCount, item), start clamped as in JS.
Splice(arr, start, deleteCount, item) ==
  LET len == Len(arr)
      s   == IF start < 0
               THEN (IF len + start < 0 THEN 0 ELSE len + start)
               ELSE (IF start > len THEN len ELSE start)
      d   == IF deleteCount > len - s THEN len - s ELSE deleteCount
  IN  SubSeq(arr, 1, s) \o <<item>> \o SubSeq(arr, s + d + 1, len)

\* Array.prototype.unshift(item)
Unshift(arr, item) == <<item>> \o arr

\* filter((value, index, array) => array.indexOf(value) === index)
RECURSIVE Distinct(_)
Distinct(arr) ==
  IF arr = <<>> THEN <<>>
  ELSE LET init == Distinct(SubSeq(arr, 1, Len(arr) - 1))
           last == arr[Len(arr)]
       IN  IF \E i \in 1..Len(init) : init[i] = last
             THEN init ELSE Append(init, last)

\* sort((a, b) => a - b)
RECURSIVE InsertSorted(_, _)
InsertSorted(sorted, v) ==
  IF sorted = <<>> THEN <<v>>
  ELSE IF v < sorted[1] THEN <<v>> \o sorted
  ELSE <<sorted[1]>> \o InsertSorted(Tail(sorted), v)

RECURSIVE SortAsc(_)
SortAsc(arr) ==
  IF arr = <<>> THEN <<>>
  ELSE InsertSorted(SortAsc(SubSeq(arr, 1, Len(arr) - 1)), arr[Len(arr)])

\* ------------------------------------------------- the canvas edit (pure)
\* The web part built by getWebPart, reduced to its id and to the
\* instanceId, title and properties of its webPartData.
NewWebPart ==
  [id |-> "newWebPart",
   webPartData |-> [instanceId |-> "newWebPart", title |-> "default",
                    properties |-> [pushPins |-> "default"]]]

\* Mutant: the default section is added whatever the length of the canvas.
ensureDefaultSection_Always(canvasContent) ==
  Unshift(canvasContent, defaultSection)

\* Mutant: push instead of unshift.
ensureDefaultSection_Push(canvasContent) ==
  IF Len(canvasContent) = 1
    THEN Append(canvasContent, defaultSection)
    ELSE canvasContent

\* if (canvasContent.length === 1) canvasContent.unshift(defaultSection)
ensureDefaultSection(canvasContent) ==
  IF Len(canvasContent) = 1
    THEN Unshift(canvasContent, defaultSection)
    ELSE canvasContent

\* filter(c => c.position)
HasPosition(c) == c.position # None

\* Mutant: the unique zoneIndex values are left in array order.
zoneIndices_Unsorted(canvasContent) ==
  LET positioned == SelectSeq(canvasContent, HasPosition)
  IN  Distinct([i \in 1..Len(positioned) |->
                  positioned[i].position[1].zoneIndex])

\* unique zoneIndex values, ascending
zoneIndices(canvasContent) ==
  LET positioned == SelectSeq(canvasContent, HasPosition)
  IN  SortAsc(Distinct([i \in 1..Len(positioned) |->
                          positioned[i].position[1].zoneIndex]))

\* args.options.section || zoneIndices.length
resolveSectionNumber(requestedSection, zi) ==
  IF requestedSection # 0 THEN requestedSection ELSE Len(zi)

\* zoneIndices[section - 1]; undefined when the index is out of range
resolveZoneIndex(section, zi) ==
  IF section \in 1..Len(zi) THEN Some(zi[section]) ELSE None

\* args.options.column || 1
resolveColumnNumber(requestedColumn) ==
  IF requestedColumn # None /\ requestedColumn[1] # 0
    THEN requestedColumn[1] ELSE 1

\* c.position && c.position.zoneIndex === zoneIndex &&
\* c.position.sectionIndex === column
InColumn(c, zoneIndex, column) ==
  /\ c.position # None
  /\ zoneIndex # None
  /\ c.position[1].zoneIndex = zoneIndex[1]
  /\ c.position[1].sectionIndex = column

\* ... && c.position.controlIndex === controlIndex (controlIndex may be
\* undefined, which no stored controlIndex equals)
InColumnAt(c, zoneIndex, column, controlIndex) ==
  /\ InColumn(c, zoneIndex, column)
  /\ controlIndex # None
  /\ c.position[1].controlIndex = controlIndex[1]

\* !control.controlType
IsEmptyColumn(control) ==
  control.controlType = None \/ control.controlType = Some(0)

\* this.extend({controlType: 3, displayMode: 2, id, position: copy, ...}, webPart)
webPartControlFor(control, webPart) ==
  [controlType |-> Some(3), position |-> control.position,
   displayMode |-> Some(2), id |-> webPart.id]

SetControlIndex(c, i) ==
  [c EXCEPT !.position = Some([c.position[1] EXCEPT !.controlIndex = i])]

\* controlIndex values of the controls of the column, ascending
controlIndices(canvasContent, zoneIndex, column) ==
  LET inCol(c) == InColumn(c, zoneIndex, column)
      webParts == SelectSeq(canvasContent, inCol)
  IN  SortAsc([i \in 1..Len(webParts) |->
                 webParts[i].position[1].controlIndex])

\* The (1-based) positions of the controls of the column that have the given
\* controlIndex.
positionsAt(canvasContent, zoneIndex, column, controlIndex) ==
  {i \in 1..Len(canvasContent) :
     InColumnAt(canvasContent[i], zoneIndex, column, controlIndex)}

\* Mutant: the index found is used as is on the append path too.
insertAt_NeverAfter(canvasContent, zoneIndex, column, order) ==
  LET cis == controlIndices(canvasContent, zoneIndex, column)
      controlIndex ==
        IF order = 0 \/ order > Len(cis) THEN Some(cis[Len(cis)])
        ELSE IF order \in 1..Len(cis) THEN Some(cis[order]) ELSE None
  IN  FindIndex(positionsAt(canvasContent, zoneIndex, column, controlIndex))

\* Mutant: the new control goes after the control found on the order path
\* too.
insertAt_AlwaysAfter(canvasContent, zoneIndex, column, order) ==
  LET cis == controlIndices(canvasContent, zoneIndex, column)
      controlIndex ==
        IF order = 0 \/ order > Len(cis) THEN Some(cis[Len(cis)])
        ELSE IF order \in 1..Len(cis) THEN Some(cis[order]) ELSE None
  IN  FindIndex(positionsAt(canvasContent, zoneIndex, column, controlIndex)) + 1

\* Array index the new control is spliced in at, for an occupied column.
insertAt(canvasContent, zoneIndex, column, order) ==
  LET cis == controlIndices(canvasContent, zoneIndex, column)
  IN  IF order = 0 \/ order > Len(cis)
        THEN LET controlIndex == Some(cis[Len(cis)])
                 webPartIndex ==
                   FindIndex(positionsAt(canvasContent, zoneIndex, column,
                                         controlIndex))
             IN  webPartIndex + 1
        ELSE LET controlIndex ==
                   IF order \in 1..Len(cis) THEN Some(cis[order]) ELSE None
                 webPartIndex ==
                   FindIndex(positionsAt(canvasContent, zoneIndex, column,
                                         controlIndex))
             IN  webPartIndex

\* Mutant: the order is not reset.
resetOrder_Skipped(canvasContent, zoneIndex, column) == canvasContent

\* Mutant: every control of the section is renumbered, whatever its column.
resetOrder_WholeSection(canvasContent, zoneIndex, column) ==
  LET inZone(c) == c.position # None /\ Some(c.position[1].zoneIndex) = zoneIndex
  IN  [i \in 1..Len(canvasContent) |->
         IF inZone(canvasContent[i])
           THEN SetControlIndex(canvasContent[i],
                  Cardinality({j \in 1..i : inZone(canvasContent[j])}))
           ELSE canvasContent[i]]

\* Mutant: let i = 0 instead of let i = 1.
resetOrder_FromZero(canvasContent, zoneIndex, column) ==
  [i \in 1..Len(canvasContent) |->
     IF InColumn(canvasContent[i], zoneIndex, column)
       THEN SetControlIndex(canvasContent[i],
              Cardinality({j \in 1..i :
                             InColumn(canvasContent[j], zoneIndex, column)}) - 1)
       ELSE canvasContent[i]]

\* reset order to ensure there are no gaps
resetOrder(canvasContent, zoneIndex, column) ==
  [i \in 1..Len(canvasContent) |->
     IF InColumn(canvasContent[i], zoneIndex, column)
       THEN SetControlIndex(canvasContent[i],
              Cardinality({j \in 1..i :
                             InColumn(canvasContent[j], zoneIndex, column)}))
       ELSE canvasContent[i]]

\* Mutant: off by one in the comparison.
sectionIsInvalid_OffByOne(section, zi) == section > Len(zi) + 1

\* if (section > zoneIndices.length) reject
sectionIsInvalid(section, zi) == section > Len(zi)

\* Mutant: splice(controlIndex, 0, ...): the placeholder stays.
replaceEmptyColumn_Inserts(canvasContent, controlIndex, webPartControl) ==
  Splice(canvasContent, controlIndex, 0, SetControlIndex(webPartControl, 1))

\* The empty-column branch: the web part replaces the placeholder.
replaceEmptyColumn(canvasContent, controlIndex, webPartControl) ==
  Splice(canvasContent, controlIndex, 1, SetControlIndex(webPartControl, 1))

\* The web-part branch: splice the web part in, then reset the order.
insertWebPart(canvasContent, zoneIndex, column, order, webPartControl) ==
  resetOrder(
    Splice(canvasContent,
           insertAt(canvasContent, zoneIndex, column, order),
           0, webPartControl),
    zoneIndex, column)

\* The body of the third handler from the default section up to the
\* savepage request: the edited canvas, or the rejection.
editCanvas(fetchedCanvas, opts, webPart) ==
  LET canvasContent == ensureDefaultSection(fetchedCanvas)
      zi            == zoneIndices(canvasContent)
      section       == resolveSectionNumber(opts.section, zi)
      zoneIndex     == resolveZoneIndex(section, zi)
      column        == resolveColumnNumber(opts.column)
      controlIndex  ==
        FindIndex({i \in 1..Len(canvasContent) :
                     InColumn(canvasContent[i], zoneIndex, column)})
      base          == [fetched |-> fetchedCanvas, ensured |-> canvasContent,
                        section |-> section, zoneIndex |-> zoneIndex,
                        column |-> column, webPart |-> webPart]
  IN  IF sectionIsInvalid(section, zi)
        THEN base @@ [outcome |-> "InvalidSection", branch |-> "none",
                      controlIndex |-> -1, canvas |-> canvasContent]
      ELSE IF controlIndex = -1
        THEN base @@ [outcome |-> "InvalidColumn", branch |-> "none",
                      controlIndex |-> -1, canvas |-> canvasContent]
      ELSE LET control        == canvasContent[controlIndex + 1]
               webPartControl == webPartControlFor(control, webPart)
           IN  IF IsEmptyColumn(control)
                 THEN base @@
                      [outcome |-> "ok", branch |-> "replace",
                       controlIndex |-> controlIndex,
                       canvas |-> replaceEmptyColumn(canvasContent,
                                    controlIndex, webPartControl)]
                 ELSE base @@
                      [outcome |-> "ok", branch |-> "insert",
                       controlIndex |-> controlIndex,
                       canvas |-> insertWebPart(canvasContent, zoneIndex,
                                    column, opts.order, webPartControl)]

\* ------------------------------------------- web part properties and data
\* A JSON option of the command: not given, or its text: the empty string,
\* one JSON.parse throws on, null, an object without an instanceId, an
\* object with one.
JsonTexts ==
  {"", "malformed", "null", "{\"title\":\"caller\"}",
   "{\"instanceId\":\"callerInstanceId\"}"}

JsonOptions == {None} \cup {Some(t) : t \in JsonTexts}

\* The two JSON options of a run.  The empty string is drawn for one option
\* at a time, the other one left out or a string JSON.parse throws on.
Payloads ==
  {p \in [webPartProperties : JsonOptions, webPartData : JsonOptions] :
     /\ p.webPartProperties = Some("") =>
          p.webPartData \in {None, Some("malformed")}
     /\ p.webPartData = Some("") =>
          p.webPartProperties \in {None, Some("malformed")}}

NoPayload == [webPartProperties |-> None, webPartData |-> None]

\* if (args.options.webPartProperties), if (args.options.webPartData): the
\* option is given and is not the empty string
Given(option) == option # None /\ option[1] # ""

\* JSON.parse(text) throws
ParseThrows(text) == text \in {"", "malformed"}

\* JSON.parse(text), for the texts it accepts
JsonParse(text) ==
  CASE text = "null" -> [kind |-> "null"]
    [] text = "{\"title\":\"caller\"}" ->
         [kind |-> "object", fields |-> [title |-> "caller"]]
    [] text = "{\"instanceId\":\"callerInstanceId\"}" ->
         [kind |-> "object", fields |-> [instanceId |-> "callerInstanceId"]]

\* extend(target, source) throws a TypeError: Object.getOwnPropertyNames
\* of null
extendThrows(source) == source.kind = "null"

\* extend(target, source): the own properties of source copied onto target
extend(target, source) ==
  [k \in DOMAIN target \cup DOMAIN source.fields |->
     IF k \in DOMAIN source.fields THEN source.fields[k] ELSE target[k]]

\* Mutant: the webPartProperties string is not parsed by validate.
validate_SkipsProperties(p) ==
  IF Given(p.webPartProperties) /\ Given(p.webPartData)
    THEN Some("Specify webPartProperties or webPartData but not both")
  ELSE IF Given(p.webPartData) /\ ParseThrows(p.webPartData[1])
    THEN Some("Specified webPartData is not a valid JSON string")
  ELSE None

\* Mutant: the webPartData string is not parsed by validate.
validate_SkipsData(p) ==
  IF Given(p.webPartProperties) /\ Given(p.webPartData)
    THEN Some("Specify webPartProperties or webPartData but not both")
  ELSE IF Given(p.webPartProperties) /\ ParseThrows(p.webPartProperties[1])
    THEN Some("Specified webPartProperties is not a valid JSON string")
  ELSE None

\* validate, the checks of webPartProperties and webPartData: the message
\* returned, or None where validate goes on to return true.
validate(p) ==
  IF Given(p.webPartProperties) /\ Given(p.webPartData)
    THEN Some("Specify webPartProperties or webPartData but not both")
  ELSE IF Given(p.webPartProperties) /\ ParseThrows(p.webPartProperties[1])
    THEN Some("Specified webPartProperties is not a valid JSON string")
  ELSE IF Given(p.webPartData) /\ ParseThrows(p.webPartData[1])
    THEN Some("Specified webPartData is not a valid JSON string")
  ELSE None

\* setWebPartProperties: the error it throws (None if none) and the web part
\* it leaves.  A webPartProperties string that does not parse, or that
\* parses to null, is dropped by the empty catch; a webPartData string that
\* does not parse throws a SyntaxError, one that parses to null a TypeError;
\* otherwise the data is copied onto webPartData and webPart.id is read
\* from its instanceId.  An option that is the empty string is passed over
\* like one not given.
setWebPartProperties(webPart, p) ==
  LET withProperties ==
        IF \/ ~Given(p.webPartProperties)
           \/ ParseThrows(p.webPartProperties[1])
           \/ extendThrows(JsonParse(p.webPartProperties[1]))
          THEN webPart
          ELSE [webPart EXCEPT !.webPartData.properties =
                  extend(@, JsonParse(p.webPartProperties[1]))]
  IN  IF ~Given(p.webPartData)
        THEN [threw |-> None, webPart |-> withProperties]
      ELSE IF ParseThrows(p.webPartData[1])
        THEN [threw |-> Some("SyntaxError"), webPart |-> withProperties]
      ELSE IF extendThrows(JsonParse(p.webPartData[1]))
        THEN [threw |-> Some("TypeError"), webPart |-> withProperties]
      ELSE LET webPartData ==
                 extend(withProperties.webPartData,
                        JsonParse(p.webPartData[1]))
           IN  [threw |-> None,
                webPart |-> [withProperties EXCEPT
                               !.webPartData = webPartData,
                               !.id = webPartData.instanceId]]

\* ---------------------------------------------------------- the command
VARIABLES
  pc,             \* where the promise chain of commandAction stands
  options,        \* args.options (section, column, order), None until read
  payload,        \* args.options.webPartProperties and .webPartData
  canvasContent,  \* the canvasContent variable of commandAction
  requests,       \* the requests issued so far, in order
  pageCheckedOut, \* res.IsPageCheckedOutToCurrentUser (None before the page)
  edit,           \* what the third handler computed (None before it ran)
  saved,          \* the CanvasContent1 sent with savepage (None if not sent)
  error,          \* the error handed to cb (None if none)
  nav             \* the run of the navigation node remove command

webPartVars == <<pc, options, payload, canvasContent, requests,
                 pageCheckedOut, edit, saved, error>>

vars == <<pc, options, payload, canvasContent, requests, pageCheckedOut, edit,
         saved, error, nav>>

\* The navigation node remove command is not run.
NavIdle == [pc |-> "idle"]

Options == [section : SectionOptions, column : ColumnOptions,
            order : OrderOptions]

Failure(kind, value) == [kind |-> kind, value |-> value]

Init ==
  /\ pc = "invoked"
  /\ options = None
  /\ payload \in Payloads
  /\ canvasContent = <<>>
  /\ requests = <<>>
  /\ pageCheckedOut = None
  /\ edit = None
  /\ saved = None
  /\ error = None
  /\ nav = NavIdle

\* commandAction up to request.get(...): the page request is issued.
commandAction ==
  /\ pc = "start"
  /\ requests' = Append(requests, "getPage")
  /\ pc' = "getPage"
  /\ UNCHANGED <<nav, options, payload, canvasContent, pageCheckedOut, edit, saved,
               error>>

\* .catch(err => this.handleRejectedODataJsonPromise(err, logger, cb))
Rejected(kind, value) ==
  /\ pc' = "done"
  /\ error' = Some(Failure(kind, value))

\* Mutant: the page is checked out whatever IsPageCheckedOutToCurrentUser.
PageRetrieved_AlwaysChecksOut ==
  /\ pc = "getPage"
  /\ \E res \in Responses(MaxFetched),
        IsPageCheckedOutToCurrentUser \in BOOLEAN :
       /\ canvasContent' = ParseCanvas(res)
       /\ pageCheckedOut' = Some(IsPageCheckedOutToCurrentUser)
       /\ pc' = "checkoutpage"
       /\ requests' = Append(requests, "checkoutpage")
  /\ UNCHANGED <<nav, options, payload, edit, saved, error>>

\* Mutant: commandAction is run whatever validate returns.
action_WithoutValidate ==
  /\ pc = "invoked"
  /\ pc' = "start"
  /\ UNCHANGED <<nav, options, payload, canvasContent, requests, pageCheckedOut, edit,
               saved, error>>

\* The command is run: validate first, commandAction only if it returns true.
action ==
  /\ pc = "invoked"
  /\ IF validate(payload) # None
       THEN Rejected("validation", validate(payload))
       ELSE pc' = "start" /\ UNCHANGED error
  /\ UNCHANGED <<nav, options, payload, canvasContent, requests, pageCheckedOut, edit,
               saved>>

\* First handler: parse the canvas; check the page out unless it already is.
PageRetrieved ==
  /\ pc = "getPage"
  /\ \E res \in Responses(MaxFetched),
        IsPageCheckedOutToCurrentUser \in BOOLEAN :
       /\ canvasContent' = ParseCanvas(res)
       /\ pageCheckedOut' = Some(IsPageCheckedOutToCurrentUser)
       /\ IF IsPageCheckedOutToCurrentUser
            THEN /\ pc' = "checkedOut"
                 /\ UNCHANGED requests
            ELSE /\ pc' = "checkoutpage"
                 /\ requests' = Append(requests, "checkoutpage")
  /\ UNCHANGED <<nav, options, payload, edit, saved, error>>

PageRequestFailed ==
  /\ pc = "getPage"
  /\ Rejected("getPage", None)
  /\ UNCHANGED <<nav, options, payload, canvasContent, requests, pageCheckedOut, edit,
               saved>>

\* Mutant: the failed checkout is reported but the chain goes on.
CheckoutFailed_GoesOn ==
  /\ pc = "checkoutpage"
  /\ error = None
  /\ error' = Some(Failure("checkoutpage", None))
  /\ requests' = Append(requests, "getclientsidewebparts")
  /\ pc' = "getWebPart"
  /\ UNCHANGED <<nav, options, payload, canvasContent, pageCheckedOut, edit, saved>>

\* The checkoutpage request failed.
CheckoutFailed ==
  /\ pc = "checkoutpage"
  /\ Rejected("checkoutpage", None)
  /\ UNCHANGED <<nav, options, payload, canvasContent, requests, pageCheckedOut, edit,
               saved>>

\* Second handler: getWebPart issues the getclientsidewebparts request.
RetrieveDefinition ==
  /\ pc \in {"checkedOut", "checkoutpage"}
  /\ requests' = Append(requests, "getclientsidewebparts")
  /\ pc' = "getWebPart"
  /\ UNCHANGED <<nav, options, payload, canvasContent, pageCheckedOut, edit, saved,
               error>>

\* getWebPart: the catalog answered; the web part is found or not.
WebPartResolved ==
  /\ pc = "getWebPart"
  /\ \E found \in BOOLEAN :
       IF found
         THEN /\ pc' = "webPart"
              /\ UNCHANGED error
         ELSE Rejected("UnknownWebPart", None)
  /\ UNCHANGED <<nav, options, payload, canvasContent, requests, pageCheckedOut, edit,
               saved>>

WebPartRequestFailed ==
  /\ pc = "getWebPart"
  /\ Rejected("getclientsidewebparts", None)
  /\ UNCHANGED <<nav, options, payload, canvasContent, requests, pageCheckedOut, edit,
               saved>>

\* Third handler: edit the canvas and issue savepage, or reject.  The
\* section, column and order options are first read here, so this is where
\* their values are drawn.
SetLayout ==
  /\ pc = "webPart"
  /\ LET w == setWebPartProperties(NewWebPart, payload)
     IN  IF w.threw # None
           THEN /\ Rejected(w.threw[1], None)
                /\ UNCHANGED <<options, canvasContent, requests, edit, saved>>
           ELSE \E o \in Options :
             LET e == editCanvas(canvasContent, o, w.webPart)
             IN  /\ options' = Some(o)
                 /\ edit' = Some(e)
                 /\ canvasContent' = e.canvas
                 /\ IF e.outcome = "InvalidSection"
                      THEN /\ Rejected("InvalidSection", Some(e.section))
                           /\ UNCHANGED <<requests, saved>>
                    ELSE IF e.outcome = "InvalidColumn"
                      THEN /\ Rejected("InvalidColumn", o.column)
                           /\ UNCHANGED <<requests, saved>>
                    ELSE /\ requests' = Append(requests, "savepage")
                         /\ saved' = Some(e.canvas)
                         /\ pc' = "savepage"
                         /\ UNCHANGED error
  /\ UNCHANGED <<nav, payload, pageCheckedOut>>

\* Fourth handler: cb()
PageSaved ==
  /\ pc = "savepage"
  /\ pc' = "done"
  /\ UNCHANGED <<nav, options, payload, canvasContent, requests, pageCheckedOut, edit,
               saved, error>>

SavePageFailed ==
  /\ pc = "savepage"
  /\ Rejected("savepage", None)
  /\ UNCHANGED <<nav, options, payload, canvasContent, requests, pageCheckedOut, edit,
               saved>>

Next ==
  \/ action
  \/ commandAction
  \/ PageRetrieved
  \/ PageRequestFailed
  \/ CheckoutFailed
  \/ RetrieveDefinition
  \/ WebPartResolved
  \/ WebPartRequestFailed
  \/ SetLayout
  \/ PageSaved
  \/ SavePageFailed

Spec == Init /\ [][Next]_vars

\* The third handler alone, on every canvas of up to MaxLen positioned
\* controls: the state in which the handler starts, after the page, the
\* checkout and the web part definition were retrieved.
InitEdit ==
  /\ pc = "webPart"
  /\ options = None
  /\ payload = NoPayload
  /\ canvasContent \in {ParseCanvas(res) : res \in Responses(MaxLen)}
  /\ requests = <<"getPage", "checkoutpage", "getclientsidewebparts">>
  /\ pageCheckedOut = Some(FALSE)
  /\ edit = None
  /\ saved = None
  /\ error = None
  /\ nav = NavIdle

NextEdit == SetLayout

SpecEdit == InitEdit /\ [][NextEdit]_vars

\* ------------------------------------- the navigation node remove command
\* Largest id of a navigation node asked to be removed.
MaxNodeId == 3

NavLocations == {"TopNavigationBar", "QuickLaunch"}

\* The options of one run: the node, and whether confirm and debug were
\* passed.
NavOptions ==
  [id : 1..MaxNodeId, location : NavLocations, confirm : BOOLEAN,
   debug : BOOLEAN]

\* The state of a run: events lists the prompts and delete requests issued,
\* in order; answer is the continue field of the answer to the prompt.
NavStart(o) ==
  [pc |-> "invoked", options |-> o, events |-> <<>>, answer |-> None,
   error |-> None, log |-> <<>>]

\* The delete request for the node is sent.
NavRemoveNode(n) ==
  [n EXCEPT !.pc = "delete", !.events = Append(n.events, "delete")]

\* The command runs: it removes the node if confirm was passed, and prompts
\* otherwise.
NavCommandAction ==
  /\ nav.pc = "invoked"
  /\ nav' = IF nav.options.confirm
              THEN NavRemoveNode(nav)
              ELSE [nav EXCEPT !.pc = "prompt",
                               !.events = Append(nav.events, "prompt")]
  /\ UNCHANGED webPartVars

\* Mutant: the node is removed whatever the answer to the prompt.
NavPromptAnswered_AnswerIgnored ==
  /\ nav.pc = "prompt"
  /\ \E continue \in BOOLEAN :
       nav' = NavRemoveNode([nav EXCEPT !.answer = Some(continue)])
  /\ UNCHANGED webPartVars

\* The callback of the prompt: remove the node if continue, else end.
NavPromptAnswered ==
  /\ nav.pc = "prompt"
  /\ \E continue \in BOOLEAN :
       nav' = IF continue
                THEN NavRemoveNode([nav EXCEPT !.answer = Some(TRUE)])
                ELSE [nav EXCEPT !.answer = Some(FALSE), !.pc = "done"]
  /\ UNCHANGED webPartVars

\* The delete request succeeded: DONE is logged in debug mode.
NavNodeRemoved ==
  /\ nav.pc = "delete"
  /\ nav' = [nav EXCEPT !.pc = "done",
                        !.log = IF nav.options.debug THEN <<"DONE">>
                                                     ELSE <<>>]
  /\ UNCHANGED webPartVars

\* The delete request failed: the error is handed to the callback.
NavRemoveFailed ==
  /\ nav.pc = "delete"
  /\ nav' = [nav EXCEPT !.pc = "done",
                        !.error = Some("An error has occurred")]
  /\ UNCHANGED webPartVars

InitNav ==
  /\ nav \in {NavStart(o) : o \in NavOptions}
  /\ pc = "idle"
  /\ options = None
  /\ payload = NoPayload
  /\ canvasContent = <<>>
  /\ requests = <<>>
  /\ pageCheckedOut = None
  /\ edit = None
  /\ saved = None
  /\ error = None

NextNav ==
  \/ NavCommandAction
  \/ NavPromptAnswered
  \/ NavNodeRemoved
  \/ NavRemoveFailed

SpecNav == InitNav /\ [][NextNav]_vars

\* ------------------------------------------------------------ properties
\* What the third handler computed, once it ran.
Edited == edit # None
E == edit[1]
Before == E.ensured
After == E.canvas
Inserted == Edited /\ E.outcome = "ok" /\ E.branch = "insert"
Replaced == Edited /\ E.outcome = "ok" /\ E.branch = "replace"
TargetZone == E.zoneIndex[1]
TargetColumn == E.column

\* c lies in column s of the section with zoneIndex z.
AtCol(c, z, s) ==
  /\ c.position # None
  /\ c.position[1].zoneIndex = z
  /\ c.position[1].sectionIndex = s

\* The controls of a column, in array order, and their controlIndex values.
ColumnSeq(cc, z, s) ==
  LET in(c) == AtCol(c, z, s) IN SelectSeq(cc, in)
ColumnIndexSeq(cc, z, s) ==
  LET q == ColumnSeq(cc, z, s)
  IN  [i \in 1..Len(q) |-> q[i].position[1].controlIndex]
ColumnIndexSet(cc, z, s) ==
  LET q == ColumnIndexSeq(cc, z, s) IN {q[i] : i \in 1..Len(q)}
ColumnCount(cc, z, s) == Len(ColumnSeq(cc, z, s))

\* The (zoneIndex, sectionIndex) pairs of a canvas.
PairsOf(cc) ==
  {<<cc[i].position[1].zoneIndex, cc[i].position[1].sectionIndex>> :
     i \in {j \in 1..Len(cc) : cc[j].position # None}}

\* The controlIndex values of a column read 1, 2, ..., n in array order.
Contiguous(cc, z, s) ==
  LET q == ColumnIndexSeq(cc, z, s) IN \A i \in 1..Len(q) : q[i] = i

\* C1: after an insert into an occupied column, whatever the order option,
\* the controlIndex values of the target column are exactly 1..k, k being the
\* number of controls the column held before plus one.
C1_ColumnIndicesAreOneToK ==
  Inserted =>
    ColumnIndexSet(After, TargetZone, TargetColumn)
      = 1..(ColumnCount(Before, TargetZone, TargetColumn) + 1)

\* An insert, with an order, into a column whose two controls were numbered
\* 3 and 1.
C1_Witness ==
  /\ Inserted
  /\ options[1].order = 2
  /\ ColumnIndexSeq(Before, TargetZone, TargetColumn) = <<3, 1>>
  /\ ColumnIndexSet(After, TargetZone, TargetColumn) = {1, 2, 3}

\* C2 as stated: after every insertion every column of the resulting canvas
\* is numbered 1, 2, ..., n.
C2_EveryColumnContiguous ==
  (Edited /\ E.outcome = "ok") =>
    \A p \in PairsOf(After) : Contiguous(After, p[1], p[2])

\* C2, amended: after an insertion the target column of the occupied-column
\* path is numbered 1, 2, ..., n, and every other column (and the target
\* column of the placeholder path) is if it was before the insertion.
C2_ContiguityKeptAndTargetReset ==
  (Edited /\ E.outcome = "ok") =>
    \A p \in PairsOf(After) :
      (\/ Contiguous(Before, p[1], p[2])
       \/ (E.branch = "insert" /\ p = <<TargetZone, TargetColumn>>))
      => Contiguous(After, p[1], p[2])

\* An insert that closed a gap in the target column next to another column
\* that was contiguous and stays so.
C2_Witness ==
  /\ Inserted
  /\ ~Contiguous(Before, TargetZone, TargetColumn)
  /\ Contiguous(After, TargetZone, TargetColumn)
  /\ \E p \in PairsOf(Before) :
       /\ p # <<TargetZone, TargetColumn>>
       /\ Contiguous(Before, p[1], p[2])
       /\ Contiguous(After, p[1], p[2])

\* The synthetic default section: section 1, column 1, full width, no
\* controlType.
IsSyntheticDefault(c) ==
  /\ c.controlType = None
  /\ c.position # None
  /\ c.position[1].zoneIndex = 1
  /\ c.position[1].sectionIndex = 1
  /\ c.position[1].sectionFactor = 12
  /\ c.position[1].layoutIndex = 1
  /\ c.position[1].controlIndex = 1
  /\ c.displayMode = Some(2)

\* C3 as stated: a canvas of one entry becomes a canvas of two entries whose
\* second entry is the synthetic default section; any other is unchanged.
C3_DefaultSectionIsSecond ==
  Edited =>
    IF Len(E.fetched) = 1
      THEN Len(Before) = 2 /\ IsSyntheticDefault(Before[2])
      ELSE Before = E.fetched

\* C3, amended: a canvas of one entry becomes a canvas of two entries whose
\* first entry is the synthetic default section and whose second entry is
\* the original entry; any other canvas is unchanged.
C3_DefaultSectionIsFirst ==
  Edited =>
    IF Len(E.fetched) = 1
      THEN /\ Len(Before) = 2
           /\ IsSyntheticDefault(Before[1])
           /\ Before[2] = E.fetched[1]
      ELSE Before = E.fetched

\* A canvas whose only entry is a web part of section 2 got the default
\* section.
C3_Witness ==
  /\ Edited
  /\ Len(E.fetched) = 1
  /\ E.fetched[1].controlType = Some(3)
  /\ E.fetched[1].position[1].zoneIndex = 2
  /\ Len(Before) = 2

IsWebPartAt(c, z, s, i) ==
  /\ c.controlType = Some(3)
  /\ AtCol(c, z, s)
  /\ c.position[1].controlIndex = i

NoOptions == [section |-> 0, column |-> None, order |-> 0]

\* C4 as stated: from the canvas [{controlType: 0}], with no section, column
\* or order, a canvas of two entries is saved whose entry 2 is the web part
\* at zoneIndex 1, sectionIndex 1, controlIndex 1.
C4_WebPartIsSecond ==
  (Edited /\ E.fetched = <<PageSettings>> /\ options = Some(NoOptions)) =>
    /\ saved # None
    /\ Len(saved[1]) = 2
    /\ IsWebPartAt(saved[1][2], 1, 1, 1)

\* C4, amended: ... a canvas of two entries is saved whose entry 1 is the
\* web part at zoneIndex 1, sectionIndex 1, controlIndex 1 and whose entry 2
\* is the page settings entry.
C4_WebPartIsFirst ==
  (Edited /\ E.fetched = <<PageSettings>> /\ options = Some(NoOptions)) =>
    /\ saved # None
    /\ Len(saved[1]) = 2
    /\ IsWebPartAt(saved[1][1], 1, 1, 1)
    /\ saved[1][1].id \in {NewWebPart.id, "callerInstanceId"}
    /\ saved[1][2] = PageSettings

\* The command completed on a page without sections and without options.
C4_Witness ==
  /\ pc = "done"
  /\ error = None
  /\ Edited
  /\ E.fetched = <<PageSettings>>
  /\ options = Some(NoOptions)
  /\ saved # None
  /\ "savepage" \in {requests[i] : i \in 1..Len(requests)}

\* The new control of the edited canvas, and the canvas without it.
IsNew(c) == c.id = NewWebPart.id
IsOld(c) == c.id # NewWebPart.id
NewIndex == CHOOSE i \in 1..Len(After) : IsNew(After[i])
NewControl == After[NewIndex]
OldAfter == SelectSeq(After, IsOld)

\* Before and after the insert, the controlIndex values of the controls
\* the target column already held, in array order.
OldIndicesBefore == ColumnIndexSeq(Before, TargetZone, TargetColumn)
OldIndicesAfter == ColumnIndexSeq(OldAfter, TargetZone, TargetColumn)
K == Len(OldIndicesBefore)

\* Rank by controlIndex of the j-th control of the target column.
RankBefore(j) ==
  1 + Cardinality({i \in 1..K : OldIndicesBefore[i] < OldIndicesBefore[j]})

StrictlyAscending(q) == \A i \in 1..(Len(q) - 1) : q[i] < q[i + 1]

\* The new control has controlIndex o, the controls ranked o or more moved up
\* by one, the others kept their rank.
PlacedAtOrder(o) ==
  /\ NewControl.position[1].controlIndex = o
  /\ Len(OldIndicesAfter) = K
  /\ \A j \in 1..K :
       OldIndicesAfter[j] =
         IF RankBefore(j) >= o THEN RankBefore(j) + 1 ELSE RankBefore(j)

\* C5 as stated: with k controls in the column and 1 <= order <= k, the new
\* control gets controlIndex order, every control ranked order or more (by
\* controlIndex) moves up by one rank and the others keep their rank.
C5_OrderIsRankByControlIndex ==
  (Inserted /\ options[1].order \in 1..K) => PlacedAtOrder(options[1].order)

\* C5, amended: the same, for a column whose controls are stored in the
\* canvas in strictly ascending controlIndex order.
C5_OrderInAscendingColumn ==
  (Inserted /\ options[1].order \in 1..K
     /\ StrictlyAscending(OldIndicesBefore))
    => PlacedAtOrder(options[1].order)

\* Existing [1, 2], order 1: the new control is 1, the old ones 2 and 3.
C5_Witness ==
  /\ Inserted
  /\ options[1].order = 1
  /\ OldIndicesBefore = <<1, 2>>
  /\ NewControl.position[1].controlIndex = 1
  /\ OldIndicesAfter = <<2, 3>>

MaxOf(S) == CHOOSE m \in S : \A x \in S : x <= m

\* The new control directly follows a control of the column that had the
\* highest controlIndex, and ends with controlIndex k + 1, the highest.
Appended ==
  /\ NewIndex > 1
  /\ AtCol(Before[NewIndex - 1], TargetZone, TargetColumn)
  /\ Before[NewIndex - 1].position[1].controlIndex
       = MaxOf(ColumnIndexSet(Before, TargetZone, TargetColumn))
  /\ NewControl.position[1].controlIndex = K + 1
  /\ \A x \in ColumnIndexSet(After, TargetZone, TargetColumn) : x <= K + 1

\* C6 as stated: with k controls in the column and order unset or above k,
\* the new control is inserted right after the control with the highest
\* controlIndex and ends with controlIndex k + 1, the highest of the column.
C6_AppendedAsLast ==
  (Inserted /\ (options[1].order = 0 \/ options[1].order > K)) => Appended

\* The last control of the column, in array order, has a controlIndex above
\* that of every other control of the column.
HighestIsLast(q) == \A i \in 1..(Len(q) - 1) : q[i] < q[Len(q)]

\* C6, amended: the same, for a column whose control with the highest
\* controlIndex is the last control of the column in the canvas.
C6_AppendedWhenHighestIsLast ==
  (Inserted /\ (options[1].order = 0 \/ options[1].order > K)
     /\ HighestIsLast(OldIndicesBefore))
    => Appended

\* Existing [1, 2], order unset: the new control is 3.
C6_Witness ==
  /\ Inserted
  /\ options[1].order = 0
  /\ OldIndicesBefore = <<1, 2>>
  /\ NewControl.position[1].controlIndex = 3
  /\ OldIndicesAfter = <<1, 2>>

\* C7: an insert whose anchor has no controlType replaces the anchor: the
\* canvas keeps its length, the new control stands where the placeholder
\* stood, with controlIndex 1, every other entry is untouched, whatever the
\* order option.
C7_PlaceholderReplacedInPlace ==
  Replaced =>
    /\ Len(After) = Len(Before)
    /\ Before[E.controlIndex + 1].controlType \in {None, Some(0)}
    /\ IsNew(After[E.controlIndex + 1])
    /\ IsWebPartAt(After[E.controlIndex + 1], TargetZone, TargetColumn, 1)
    /\ \A i \in 1..Len(Before) :
         i # E.controlIndex + 1 => After[i] = Before[i]

\* A placeholder numbered 3, second in the canvas, replaced although an
\* order was given.
C7_Witness ==
  /\ Replaced
  /\ options[1].order = 2
  /\ E.controlIndex = 1
  /\ Before[2].controlType = None
  /\ Before[2].position[1].controlIndex = 3
  /\ Len(After) = 3

\* The distinct zoneIndex values of the controls that carry a position.
ZoneSet(cc) ==
  {cc[i].position[1].zoneIndex : i \in {j \in 1..Len(cc) : cc[j].position # None}}

\* C8: a section option above the number of distinct zoneIndex values of the
\* canvas handed to the section lookup ends the command with the error
\* "Invalid section '<n>'", and nothing is saved.
C8_SectionAboveCountIsInvalid ==
  (Edited /\ options[1].section > Cardinality(ZoneSet(Before))) =>
    /\ pc = "done"
    /\ error = Some(Failure("InvalidSection", Some(options[1].section)))
    /\ saved = None

\* Section 2 asked of a canvas whose only section has zoneIndex 2.
C8_Witness ==
  /\ Edited
  /\ options[1].section = 2
  /\ ZoneSet(Before) = {2}
  /\ pc = "done"
  /\ error # None
  /\ error[1].kind = "InvalidSection"

Issued(name) == Cardinality({i \in 1..Len(requests) : requests[i] = name})

\* The failures the command detects before it saves.
DetectedFailures ==
  {"InvalidSection", "InvalidColumn", "UnknownWebPart",
   "getPage", "checkoutpage", "getclientsidewebparts"}

\* C9: savepage is issued at most once, never in a run in which an invalid
\* section, an invalid column, an unknown web part or a failed page,
\* checkout or catalog request was detected, and only with the canvas of a
\* successful edit.
C9_SavedOnlyOnSuccess ==
  /\ Issued("savepage") <= 1
  /\ (error # None /\ error[1].kind \in DetectedFailures) =>
       (Issued("savepage") = 0 /\ saved = None)
  /\ (Issued("savepage") = 1) =>
       (Edited /\ E.outcome = "ok" /\ saved = Some(After))
  /\ (saved # None) => Issued("savepage") = 1

\* The command ended on an invalid column after the three reads, unsaved.
C9_Witness ==
  /\ pc = "done"
  /\ error # None
  /\ error[1].kind = "InvalidColumn"
  /\ Len(requests) = 3
  /\ saved = None

RequestNames == {"getPage", "checkoutpage", "getclientsidewebparts", "savepage"}

\* The requests of a complete run, given what the page request answered.
ExpectedRequests ==
  IF pageCheckedOut = Some(TRUE)
    THEN <<"getPage", "getclientsidewebparts", "savepage">>
    ELSE <<"getPage", "checkoutpage", "getclientsidewebparts", "savepage">>

IsPrefix(p, q) == Len(p) <= Len(q) /\ SubSeq(q, 1, Len(p)) = p

\* C10: the requests are issued in the order page, checkout (exactly when the
\* page is not checked out to the current user), catalog, save, each at most
\* once; a request is issued only while no earlier one is in flight or has
\* failed, and the request that failed is the last one issued.
C10_RequestsInOrder ==
  /\ IsPrefix(requests, ExpectedRequests)
  /\ (pageCheckedOut = None) => Len(requests) <= 1
  /\ (pageCheckedOut = Some(FALSE)) => Issued("checkoutpage") = 1
  /\ (pc \in RequestNames) => requests[Len(requests)] = pc
  /\ (error # None) => pc = "done"
  /\ (error # None /\ error[1].kind \in RequestNames) =>
       requests[Len(requests)] = error[1].kind

\* A complete run on a page already checked out: no checkout request.
C10_Witness ==
  /\ pc = "done"
  /\ error = None
  /\ pageCheckedOut = Some(TRUE)
  /\ requests = <<"getPage", "getclientsidewebparts", "savepage">>

\* A webPartProperties or webPartData string that JSON.parse rejects.
\* An option is a non-empty string JSON.parse throws on.
Malformed(p) ==
  \/ p.webPartProperties = Some("malformed")
  \/ p.webPartData = Some("malformed")

\* An option is a string JSON.parse throws on, the empty string included.
Unparsable(p) ==
  \/ p.webPartProperties # None /\ ParseThrows(p.webPartProperties[1])
  \/ p.webPartData # None /\ ParseThrows(p.webPartData[1])

\* C11 as stated: a run whose webPartProperties or webPartData string does
\* not parse ends with an error, and its canvas is never saved.
C11_UnparsableJsonIsTerminal ==
  Unparsable(payload) =>
    /\ pc = "done" => error # None
    /\ saved = None
    /\ Issued("savepage") = 0

\* C11: a run whose webPartProperties or webPartData is a non-empty string
\* that does not parse ends with an error before any request is issued, and
\* savepage is never issued in it.
C11_MalformedJsonIsTerminal ==
  (Malformed(payload) /\ pc # "invoked") =>
    /\ pc = "done"
    /\ error # None
    /\ saved = None
    /\ requests = <<>>

\* The run of a command given only a webPartProperties string that does not
\* parse has ended with the message of validate.
C11_Witness ==
  /\ pc = "done"
  /\ payload.webPartProperties = Some("malformed")
  /\ payload.webPartData = None
  /\ error = Some(Failure("validation",
       Some("Specified webPartProperties is not a valid JSON string")))
  /\ saved = None

NavIssued(name) ==
  \E i \in 1..Len(nav.events) : nav.events[i] = name

\* C12: without the confirm option the first thing the command issues is
\* the prompt; a delete request is sent only if confirm was passed or the
\* prompt was answered with continue = true; a declined prompt ends the
\* command without a delete request and without an error.
C12_DeleteOnlyWhenConfirmed ==
  /\ (~nav.options.confirm /\ nav.pc # "invoked") =>
       (nav.events # <<>> /\ nav.events[1] = "prompt")
  /\ NavIssued("delete") =>
       (nav.options.confirm \/ nav.answer = Some(TRUE))
  /\ (nav.answer = Some(FALSE)) =>
       (nav.pc = "done" /\ ~NavIssued("delete") /\ nav.error = None)

\* A run without confirm whose prompt was declined has ended with
\* nothing but the prompt issued.
C12_Witness ==
  /\ nav.pc = "done"
  /\ ~nav.options.confirm
  /\ nav.answer = Some(FALSE)
  /\ nav.events = <<"prompt">>

\* The section asked for, 0 when the option was not given.
RequestedSection == options[1].section

\* The number of distinct zoneIndex values of the canvas below z.
ZonesBelow(cc, z) == Cardinality({y \in ZoneSet(cc) : y < z})

\* C13: the zoneIndex the section lookup resolves is the one of rank
\* `section` among the distinct zoneIndex values of the canvas taken in
\* ascending order, wherever the controls sit in the array; without a
\* section option it is the largest zoneIndex of the canvas.
C13_ZoneIndexIsRankInAscendingOrder ==
  (Edited /\ ZoneSet(Before) # {} /\ E.outcome # "InvalidSection") =>
    /\ E.zoneIndex # None
    /\ TargetZone \in ZoneSet(Before)
    /\ RequestedSection # 0 =>
         ZonesBelow(Before, TargetZone) = RequestedSection - 1
    /\ RequestedSection = 0 =>
         \A y \in ZoneSet(Before) : y <= TargetZone

\* Section 1 was asked for on a canvas whose first control is of zoneIndex
\* 2 and whose second is of zoneIndex 1: zoneIndex 1 was resolved.
C13_Witness ==
  /\ Edited
  /\ Len(Before) >= 2
  /\ Before[1].position # None /\ Before[1].position[1].zoneIndex = 2
  /\ Before[2].position # None /\ Before[2].position[1].zoneIndex = 1
  /\ RequestedSection = 1
  /\ E.zoneIndex = Some(1)
  /\ E.outcome = "ok"

\* No control of the canvas handed to the column lookup is in the column
\* looked up.
ColumnMissing ==
  /\ Edited
  /\ E.outcome # "InvalidSection"
  /\ \A i \in 1..Len(Before) : ~InColumn(Before[i], E.zoneIndex, E.column)

\* C14: when no control of the resolved zoneIndex has the sectionIndex
\* looked up (the column option, 1 without it), the command ends with the
\* error "Invalid column '<n>'" where n is the column looked up, also when
\* it is the default.
C14_MessageNamesLookedUpColumn ==
  ColumnMissing =>
    /\ pc = "done"
    /\ error = Some(Failure("InvalidColumn", Some(E.column)))

\* The controls of the canvas handed to the edit that are still in it
\* afterwards: all of them, but the placeholder a replacement took out.
Kept ==
  IF E.branch = "replace"
    THEN SubSeq(Before, 1, E.controlIndex) \o
         SubSeq(Before, E.controlIndex + 2, Len(Before))
    ELSE Before

\* b is a but for its controlIndex.
SameButControlIndex(a, b) ==
  /\ a.position # None
  /\ b = SetControlIndex(a, b.position[1].controlIndex)

\* C15: an edit that succeeds adds the new control and nothing else: the
\* other controls are those the canvas held (but a replaced placeholder), in
\* the same array order; those outside the target column, the page settings
\* slice among them, are unchanged, and those inside it differ at most in
\* controlIndex.
C15_OnlyTargetColumnRewritten ==
  (Edited /\ E.outcome = "ok") =>
    /\ Len(After) = Len(OldAfter) + 1
    /\ Len(OldAfter) = Len(Kept)
    /\ \A i \in 1..Len(Kept) :
         IF AtCol(Kept[i], TargetZone, TargetColumn)
           THEN SameButControlIndex(Kept[i], OldAfter[i])
           ELSE OldAfter[i] = Kept[i]

\* A web part was inserted in a column of a canvas that also holds a control
\* of another column and the page settings slice, and a controlIndex of the
\* target column was rewritten.
C15_Witness ==
  /\ Inserted
  /\ \E i \in 1..Len(Before) :
       /\ Before[i].position # None
       /\ ~AtCol(Before[i], TargetZone, TargetColumn)
  /\ Before[Len(Before)] = PageSettings
  /\ After[Len(After)] = PageSettings
  /\ OldAfter # Before

\* The control at position i of the edited canvas is one the target
\* column already held.
OldOfTargetColumn(i) ==
  /\ i \in 1..Len(After)
  /\ IsOld(After[i])
  /\ AtCol(After[i], TargetZone, TargetColumn)

\* C16: whatever the order option (zero and negative values included), a
\* web part inserted in an occupied column sits in the array right before
\* or right after a control that column already held.
C16_PlacedNextToTargetColumn ==
  Inserted =>
    \/ OldOfTargetColumn(NewIndex - 1)
    \/ OldOfTargetColumn(NewIndex + 1)

====
